---- MODULE Spec2Model ----
(***************************************************************************)
(* A model of the probe-rs command line front end, cli/src/main.rs.       *)
(*                                                                         *)
(* One invocation of the program runs one command.  The command is fixed  *)
(* in the initial state (the parsed command line) and pc is the position  *)
(* of the single thread inside the function that implements the command.  *)
(* The probe library, the line editor, the file system and standard       *)
(* output are the environment: every call into them returns one of the    *)
(* results its signature allows, chosen nondeterministically.             *)
(***************************************************************************)
EXTENDS Integers, Sequences, FiniteSets, TLC

(***************************************************************************)
(* Bounds of the model.                                                    *)
(***************************************************************************)
\* the longest input stream handed to the debug shell before it ends
MaxInput == 3

\* the number of iterations of the sampling loop that are followed
MaxIter == 3

\* the commands of main() that are modelled
Commands == {"debug", "trace", "download", "dump", "reset", "erase"}

(***************************************************************************)
(* The debug shell: input events and handler results.                      *)
(***************************************************************************)
\* lines the user may type; what they mean is decided by the line handler
Lines == {"step", "quit"}

\* ReadlineError: end of input, ctrl-c, and any other failure of the editor
ReadlineErrors == {"Eof", "Interrupted", "Io"}

\* what one call of rl.readline() can return: Ok(line) or Err(e)
InputEvents == Lines \cup ReadlineErrors

\* all sequences over S of length at most n
RECURSIVE SeqsUpTo(_, _)
SeqsUpTo(S, n) ==
    IF n = 0 THEN {<<>>}
    ELSE LET shorter == SeqsUpTo(S, n - 1)
         IN  shorter \cup {Append(s, x) : s \in {t \in shorter : Len(t) = n - 1}, x \in S}

\* CliState, plus the Err arm of the Result that handle_line returns
HandlerResults == {"Continue", "Stop", "Err"}

(***************************************************************************)
(* Unsigned integers.  A u64 is four 16-bit limbs and a u32 two, least     *)
(* significant limb first, so that 64-bit and 32-bit arithmetic keeps its  *)
(* width.                                                                  *)
(***************************************************************************)
Limb == 2^16

\* u64::from(n) for 0 <= n < 2^31
U64FromInt(n) == <<n % Limb, n \div Limb, 0, 0>>

\* x * k on u64 (wrapping), for a small k
MulSmall(x, k) ==
    LET p1 == x[1] * k
        p2 == x[2] * k + p1 \div Limb
        p3 == x[3] * k + p2 \div Limb
        p4 == x[4] * k + p3 \div Limb
    IN  <<p1 % Limb, p2 % Limb, p3 % Limb, p4 % Limb>>

\* x + a on u64 (wrapping), for a small a
AddSmall(x, a) ==
    LET s1 == x[1] + a
        s2 == x[2] + s1 \div Limb
        s3 == x[3] + s2 \div Limb
        s4 == x[4] + s3 \div Limb
    IN  <<s1 % Limb, s2 % Limb, s3 % Limb, s4 % Limb>>

\* x % m on u64, for a small m
ModSmall(x, m) ==
    LET r4 == x[4] % m
        r3 == (r4 * Limb + x[3]) % m
        r2 == (r3 * Limb + x[2]) % m
    IN  (r2 * Limb + x[1]) % m

\* a <= b on limb sequences of the same length
RECURSIVE LimbsLeq(_, _)
LimbsLeq(a, b) ==
    IF a = <<>> THEN TRUE
    ELSE LET n == Len(a)
         IN  \/ a[n] < b[n]
             \/ a[n] = b[n] /\ LimbsLeq(SubSeq(a, 1, n - 1), SubSeq(b, 1, n - 1))

(***************************************************************************)
(* The monotonic clock.  A Duration is whole seconds plus the milliseconds *)
(* of the running second (finer units never reach the program).            *)
(***************************************************************************)
Dur(s, m) == [secs |-> s, millis |-> m]

AddDur(a, b) ==
    LET m == a.millis + b.millis
    IN  Dur(a.secs + b.secs + m \div 1000, m % 1000)

\* Duration::from_millis(w)
FromMillis(w) == Dur(w \div 1000, w % 1000)

\* a duration just short of 2^32 ms (2^32 = 4294967296): the trace has been
\* running, or a call has been blocked, for some 49.7 days
LongRun == Dur(4294967, 290)

\* how long simple_attach can take (start is taken before the attach)
AttachDelays == {Dur(0, 0), Dur(0, 993), LongRun}

\* how long read_word_32 and the write to stdout can take together
ReadDelays == {Dur(0, 0), Dur(0, 57)}

\* by how much thread::sleep can oversleep
Oversleeps == {Dur(0, 0), Dur(0, 3)}

\* the words read_word_32 can return: 0 and 0x12345678
Values == {<<0, 0>>, <<22136, 4660>>}

\* the mutant of ElapsedMs: the whole seconds are dropped
ElapsedMsSubsecOnly(e) == AddSmall(U64FromInt(0), e.millis)

\* elapsed.as_secs() * 1000 + u64::from(elapsed.subsec_millis())
ElapsedMs(e) == AddSmall(MulSmall(U64FromInt(e.secs), 1000), e.millis)

poll_every_ms == 50

\* the mutant of TimeToWait: the remainder itself
TimeToWaitRemainder(instant) == ModSmall(instant, poll_every_ms)

\* the mutant of TimeToWait: always one whole period
TimeToWaitWholePeriod(instant) == poll_every_ms

\* poll_every_ms - instant % poll_every_ms
TimeToWait(instant) == poll_every_ms - ModSmall(instant, poll_every_ms)

(***************************************************************************)
(* The 8-byte record.                                                      *)
(***************************************************************************)
\* the two bytes of a limb, least significant first
LimbBytesLE(l) == <<l % 256, l \div 256>>

\* the bytes scroll writes for an integer with the LE context
RECURSIVE BytesLE(_)
BytesLE(x) == IF x = <<>> THEN <<>> ELSE LimbBytesLE(Head(x)) \o BytesLE(Tail(x))

\* buf.pwrite_with(n, offset, ctx): Ok when the bytes fit into buf
PwriteFits(b, bytes, offset) == offset + Len(bytes) <= Len(b)

Pwrite(b, bytes, offset) ==
    [i \in 1..Len(b) |->
        IF i > offset /\ i <= offset + Len(bytes) THEN bytes[i - offset] ELSE b[i]]

\* let mut buf = [0_u8; 8]
ZeroBuf == [i \in 1..8 |-> 0]

\* the mutant of EncodeRecord: the value is written first and the timestamp
\* over it
EncodeRecordSwapped(instant, value) ==
    Pwrite(Pwrite(ZeroBuf, BytesLE(value), 4), BytesLE(instant), 0)

\* buf.pwrite_with(instant, 0, LE).unwrap(); buf.pwrite_with(value, 4, LE).unwrap();
\* instant is a u64: its eight bytes fill buf, then the value overwrites 4..7
EncodeRecord(instant, value) ==
    Pwrite(Pwrite(ZeroBuf, BytesLE(instant), 0), BytesLE(value), 4)

(***************************************************************************)
(* Command line arguments.  A numeral is the sequence of its characters;  *)
(* an Option is a sequence of length at most one.                          *)
(***************************************************************************)
\* the largest word count given to dump
MaxWords == 3

DecDigits == <<"0", "1", "2", "3", "4", "5", "6", "7", "8", "9">>

\* the decimal numeral of n
RECURSIVE Decimal(_)
Decimal(n) ==
    IF n < 10 THEN <<DecDigits[n + 1]>>
    ELSE Decimal(n \div 10) \o <<DecDigits[(n % 10) + 1]>>

\* 0x20000000, 0xfffffff8 (eight bytes below the end of the address space),
\* 0x8000000, 0x100000000 (one more than a u32 holds) and a malformed numeral
Hex20000000 == <<"0", "x", "2", "0", "0", "0", "0", "0", "0", "0">>
HexFFFFFFF8 == <<"0", "x", "f", "f", "f", "f", "f", "f", "f", "8">>
Hex8000000 == <<"0", "x", "8", "0", "0", "0", "0", "0", "0">>
Hex100000000 == <<"0", "x", "1", "0", "0", "0", "0", "0", "0", "0", "0">>
BadNumeral == <<"1", "2", "z">>

\* what may be typed for each numeric argument
DumpLocArgs == {Hex20000000, HexFFFFFFF8, BadNumeral}
DumpWordsArgs == {Decimal(w) : w \in 0..MaxWords} \cup {<<"0", "x", "2">>, BadNumeral}
TraceLocArgs == {Hex20000000, BadNumeral}
BaseAddressArgs == {<<>>, <<Hex8000000>>, <<Hex100000000>>}
SkipBytesArgs == {<<>>, <<<<"4">>>>, <<BadNumeral>>}

\* DownloadFileType
FileTypes == {"Elf", "Hex", "Bin"}

\* the value of a character as a digit; 99 for any other character
DigitVal(c) ==
    CASE c = "0" -> 0  [] c = "1" -> 1  [] c = "2" -> 2  [] c = "3" -> 3
      [] c = "4" -> 4  [] c = "5" -> 5  [] c = "6" -> 6  [] c = "7" -> 7
      [] c = "8" -> 8  [] c = "9" -> 9  [] c = "a" -> 10 [] c = "b" -> 11
      [] c = "c" -> 12 [] c = "d" -> 13 [] c = "e" -> 14 [] c = "f" -> 15
      [] OTHER -> 99

ParseError == [ok |-> FALSE, val |-> <<0, 0>>]

\* the digits of u32::from_str_radix: a character that is no digit of the
\* radix and a value above u32::MAX are errors
RECURSIVE ParseDigits(_, _, _)
ParseDigits(s, radix, acc) ==
    IF s = <<>> THEN [ok |-> TRUE, val |-> acc]
    ELSE LET d == DigitVal(Head(s))
             p1 == acc[1] * radix + d
             p2 == acc[2] * radix + p1 \div Limb
         IN  IF d >= radix \/ p2 >= Limb
             THEN ParseError
             ELSE ParseDigits(Tail(s), radix, <<p1 % Limb, p2 % Limb>>)

\* u32::from_str_radix: an optional plus sign, then at least one digit
FromStrRadix(s, radix) ==
    LET t == IF s # <<>> /\ Head(s) = "+" THEN Tail(s) ELSE s
    IN  IF t = <<>> THEN ParseError ELSE ParseDigits(t, radix, <<0, 0>>)

HasPrefix(s, c) == Len(s) >= 2 /\ s[1] = "0" /\ s[2] = c

\* the mutant of parse_u32: a numeral that does not parse counts as 0
parse_u32_lenient(in) ==
    LET t == SelectSeq(in, LAMBDA c : c # "_")
        p == CASE HasPrefix(t, "x") -> FromStrRadix(SubSeq(t, 3, Len(t)), 16)
               [] HasPrefix(t, "o") -> FromStrRadix(SubSeq(t, 3, Len(t)), 8)
               [] HasPrefix(t, "b") -> FromStrRadix(SubSeq(t, 3, Len(t)), 2)
               [] OTHER             -> FromStrRadix(t, 10)
    IN  [ok |-> TRUE, val |-> p.val]

\* parse_int::parse(input): underscores are dropped, 0x, 0o and 0b select the
\* radix, anything else is decimal
parse_u32(in) ==
    LET t == SelectSeq(in, LAMBDA c : c # "_")
    IN  CASE HasPrefix(t, "x") -> FromStrRadix(SubSeq(t, 3, Len(t)), 16)
          [] HasPrefix(t, "o") -> FromStrRadix(SubSeq(t, 3, Len(t)), 8)
          [] HasPrefix(t, "b") -> FromStrRadix(SubSeq(t, 3, Len(t)), 2)
          [] OTHER             -> FromStrRadix(t, 10)

\* an optional numeric argument: absent, or parsed with parse_u32
ParseOption(a) ==
    IF a = <<>> THEN [ok |-> TRUE, val |-> <<>>]
    ELSE [ok |-> parse_u32(a[1]).ok, val |-> <<parse_u32(a[1]).val>>]

\* the mutant of into: the skip of a raw binary is always 0
into_skip_dropped(self, base_address, skip) ==
    CASE self = "Elf" -> [kind |-> "Elf"]
      [] self = "Hex" -> [kind |-> "Hex"]
      [] self = "Bin" -> [kind |-> "Bin", base_address |-> base_address, skip |-> <<0, 0>>]

\* DownloadFileType::into: Format::Elf, Format::Hex or
\* Format::Bin(BinOptions { base_address, skip: skip.unwrap_or(0) })
into(self, base_address, skip) ==
    CASE self = "Elf" -> [kind |-> "Elf"]
      [] self = "Hex" -> [kind |-> "Hex"]
      [] self = "Bin" -> [kind |-> "Bin", base_address |-> base_address,
                          skip |-> IF skip = <<>> THEN <<0, 0>> ELSE skip[1]]

(***************************************************************************)
(* u32 arithmetic of the dump.  Rust checks it in a debug build and wraps  *)
(* in a release build; overflow says which case is at hand.                *)
(***************************************************************************)
\* n as u32, for 0 <= n < 2^31
U32FromInt(n) == <<n % Limb, n \div Limb>>

\* x as usize, for x < 2^31
ToInt(x) == x[1] + Limb * x[2]

\* k * x on u32, for a small k
MulU32(k, x) ==
    LET p1 == x[1] * k
        p2 == x[2] * k + p1 \div Limb
    IN  [val |-> <<p1 % Limb, p2 % Limb>>, overflow |-> p2 >= Limb]

\* a + b on u32
AddU32(a, b) ==
    LET s1 == a[1] + b[1]
        s2 == a[2] + b[2] + s1 \div Limb
    IN  [val |-> <<s1 % Limb, s2 % Limb>>, overflow |-> s2 >= Limb]

\* the mutant of RowAddr: the index is not scaled to bytes
RowAddrUnscaled(loc, w) ==
    LET s == AddU32(loc, U32FromInt(w))
    IN  [val |-> s.val, overflow |-> s.overflow]

\* loc + 4 * word
RowAddr(loc, w) ==
    LET m == MulU32(4, U32FromInt(w))
        s == AddU32(loc, m.val)
    IN  [val |-> s.val, overflow |-> m.overflow \/ s.overflow]

\* all sequences over S of length exactly n
RECURSIVE SeqsOfLen(_, _)
SeqsOfLen(S, n) ==
    IF n = 0 THEN {<<>>}
    ELSE {Append(s, x) : s \in SeqsOfLen(S, n - 1), x \in S}

VARIABLES
    cmd,        \* the command main() dispatches to
    pc,         \* position inside the command's function
    result,     \* what the function returned: "none" while running, "ok", "err"
    session,    \* TRUE while the Session returned by simple_attach is held
    attaches,   \* number of calls of simple_attach
    cores,      \* number of live Core handles
    coreSelects,\* number of calls of session.core
    input,      \* debug: what the line editor will return, in order
    readline,   \* debug: the value of the last rl.readline()
    history,    \* debug: the editor's history
    dispatched, \* debug: the lines handed to cli.handle_line, in order
    cli_state,  \* debug: the last result of cli.handle_line
    printed,    \* debug: the errors printed by the loop
    clock,      \* trace: the time elapsed since `start`
    instant,    \* trace: the local instant of the iteration (a u64)
    value,      \* trace: the word read in the iteration (a u32)
    xs,         \* trace: the vector xs
    ys,         \* trace: the vector ys
    buf,        \* trace: the record buffer
    pending,    \* trace: records written to stdout and not yet flushed
    sink,       \* trace: records that reached the consumer of stdout
    time_to_wait, \* trace: the local time_to_wait
    iter,       \* trace: completed iterations
    reads,      \* trace: successful reads of the memory word
    format,     \* download: the Format the image is declared to have
    opened,     \* download: File::open returned the file
    loadCall,   \* download: the entry of the loader that was called
    loaded,     \* download: the load step returned Ok
    flashRuns,  \* download: number of calls of run_flash_download
    io,         \* the result of the last call into the environment
    args,       \* the arguments of the command as typed
    matches,    \* the arguments as parsed by Cli::from_args
    ops,        \* the calls made on the session and the core, with their results
    readSpan,   \* trace: when the last read was issued and when it completed
    overslept,  \* trace: by how much the last sleep overslept
    data,       \* dump: the vector data
    word,       \* dump: the index of the row loop
    rows,       \* dump: the data rows printed
    readReq,    \* dump: the address and length handed to read_32
    summary     \* dump: the word count of the printed statistics line

vars == <<cmd, pc, result, session, attaches, cores, coreSelects,
          input, readline, history, dispatched, cli_state, printed,
          clock, instant, value, xs, ys, buf, pending, sink, time_to_wait, iter,
          reads, format, opened, loadCall, loaded, flashRuns, io,
          args, matches, ops, readSpan, overslept, data, word, rows, readReq, summary>>

commonVars == <<session, attaches, cores, coreSelects>>
debugVars == <<input, readline, history, dispatched, cli_state, printed>>
traceVars == <<clock, instant, value, xs, ys, buf, pending, sink, time_to_wait, iter,
               reads, readSpan, overslept>>
downloadVars == <<format, opened, loadCall, loaded, flashRuns>>
dumpVars == <<data, word, rows, readReq, summary>>

\* Format: the raw binary, ELF and Intel HEX images
Formats == {"Bin", "Elf", "Hex"}

\* a command line without arguments
NoArgs == [loc |-> <<>>, words |-> <<>>, base_address |-> <<>>, skip_bytes |-> <<>>,
           format |-> "Elf", assert |-> <<>>]

\* the command lines of a command
ArgsOf(c) ==
    CASE c = "dump" ->
            {[NoArgs EXCEPT !.loc = <<l>>, !.words = <<w>>] :
                l \in DumpLocArgs, w \in DumpWordsArgs}
      [] c = "trace" ->
            {[NoArgs EXCEPT !.loc = <<l>>] : l \in TraceLocArgs}
      [] c = "download" ->
            {[NoArgs EXCEPT !.format = t, !.base_address = b, !.skip_bytes = k] :
                t \in FileTypes, b \in BaseAddressArgs, k \in SkipBytesArgs}
      [] c = "reset" ->
            {[NoArgs EXCEPT !.assert = a] : a \in {<<>>, <<TRUE>>, <<FALSE>>}}
      [] OTHER -> {NoArgs}

Init ==
    /\ cmd \in Commands
    /\ pc = "parse"
    /\ result = "none"
    /\ session = FALSE
    /\ attaches = 0
    /\ cores = 0
    /\ coreSelects = 0
    /\ input \in IF cmd = "debug" THEN SeqsUpTo(InputEvents, MaxInput) ELSE {<<>>}
    /\ readline = "none"
    /\ history = <<>>
    /\ dispatched = <<>>
    /\ cli_state = "none"
    /\ printed = <<>>
    /\ clock = Dur(0, 0)
    /\ instant = U64FromInt(0)
    /\ value = <<0, 0>>
    /\ xs = <<>>
    /\ ys = <<>>
    /\ buf = ZeroBuf
    /\ pending = <<>>
    /\ sink = <<>>
    /\ time_to_wait = 0
    /\ iter = 0
    /\ reads = 0
    /\ format = [kind |-> "none"]
    /\ opened = FALSE
    /\ loadCall = "none"
    /\ loaded = FALSE
    /\ flashRuns = 0
    /\ io = "none"
    /\ args \in ArgsOf(cmd)
    /\ matches = [loc |-> <<>>, words |-> <<>>, base_address |-> <<>>, skip_bytes |-> <<>>]
    /\ ops = <<>>
    /\ readSpan = [issued |-> Dur(0, 0), completed |-> Dur(0, 0)]
    /\ overslept = Dur(0, 0)
    /\ data = <<>>
    /\ word = 0
    /\ rows = <<>>
    /\ readReq = <<>>
    /\ summary = <<>>

(***************************************************************************)
(* main(): Cli::from_args() parses the command line; an argument that does *)
(* not parse makes it print the error and exit.  Otherwise the command's   *)
(* function is called, for download with the Format that into() returns.   *)
(***************************************************************************)
ParseArgs ==
    /\ pc = "parse"
    /\ LET l == ParseOption(args.loc)
           w == ParseOption(args.words)
           b == ParseOption(args.base_address)
           k == ParseOption(args.skip_bytes)
       IN  IF l.ok /\ w.ok /\ b.ok /\ k.ok
           THEN /\ matches' = [loc |-> l.val, words |-> w.val,
                               base_address |-> b.val, skip_bytes |-> k.val]
                /\ format' = IF cmd = "download"
                             THEN into(args.format, b.val, k.val)
                             ELSE format
                /\ pc' = "attach"
                /\ UNCHANGED result
           ELSE /\ pc' = "done"
                /\ result' = "parse_error"
                /\ UNCHANGED <<matches, format>>
    /\ UNCHANGED <<cmd, args, io, ops, opened, loadCall, loaded, flashRuns>>
    /\ UNCHANGED <<commonVars, debugVars, traceVars, dumpVars>>

(***************************************************************************)
(* Returning from the command's function.  The Session and the Core are    *)
(* locals: they are dropped on every return.                               *)
(***************************************************************************)
Return(r) ==
    /\ pc' = "done"
    /\ result' = r
    /\ session' = FALSE
    /\ cores' = 0

\* what a fallible call into the environment returns: Ok(..) or Err(..)
IoResults == {"ok", "err"}

\* the mutant of Attach: a failed attach is tried once more
AttachRetried(next) ==
    /\ attaches' = attaches + 1
    /\ \E r \in IoResults :
          /\ io' = r
          /\ ops' = Append(ops, [op |-> "attach", r |-> r])
          /\ CASE r = "ok"     -> session' = TRUE /\ pc' = next /\ UNCHANGED <<result, cores>>
               [] attaches = 0 -> UNCHANGED <<pc, result, session, cores>>
               [] OTHER        -> Return("err")

\* let mut session = common.simple_attach()?;
Attach(next) ==
    /\ attaches' = attaches + 1
    /\ \E r \in IoResults :
          /\ io' = r
          /\ ops' = Append(ops, [op |-> "attach", r |-> r])
          /\ IF r = "ok"
             THEN session' = TRUE /\ pc' = next /\ UNCHANGED <<result, cores>>
             ELSE Return("err")

\* session.core(shared_options.core)?
SelectCore(next) ==
    /\ coreSelects' = coreSelects + 1
    /\ \E r \in IoResults :
          /\ io' = r
          /\ ops' = Append(ops, [op |-> "core", r |-> r])
          /\ IF r = "ok"
             THEN cores' = cores + 1 /\ pc' = next /\ UNCHANGED <<result, session>>
             ELSE Return("err")

(***************************************************************************)
(* debug(): the interactive shell loop.                                    *)
(***************************************************************************)
DebugAttach ==
    /\ cmd = "debug" /\ pc = "attach"
    /\ Attach("capstone")
    /\ UNCHANGED <<cmd, args, matches, coreSelects>>
    /\ UNCHANGED <<debugVars, traceVars, downloadVars, dumpVars>>

\* Capstone::new()...build().map_err(..)?  and DebugInfo::from_file(path).ok()
DebugCapstone ==
    /\ cmd = "debug" /\ pc = "capstone"
    /\ \E r \in IoResults :
          /\ io' = r
          /\ IF r = "ok"
             THEN pc' = "core" /\ UNCHANGED <<result, session, cores>>
             ELSE Return("err")
    /\ UNCHANGED <<cmd, args, matches, attaches, coreSelects, ops>>
    /\ UNCHANGED <<debugVars, traceVars, downloadVars, dumpVars>>

DebugCore ==
    /\ cmd = "debug" /\ pc = "core"
    /\ SelectCore("readline")
    /\ UNCHANGED <<cmd, args, matches, attaches>>
    /\ UNCHANGED <<debugVars, traceVars, downloadVars, dumpVars>>

\* rl.readline(">> "): the next event of the input stream; a stream that has
\* run out reports end of input
NextEvent(in) == IF in = <<>> THEN "Eof" ELSE Head(in)

DebugReadline ==
    /\ cmd = "debug" /\ pc = "readline"
    /\ readline' = NextEvent(input)
    /\ input' = IF input = <<>> THEN input ELSE Tail(input)
    /\ pc' = "match"
    /\ UNCHANGED <<cmd, args, matches, result, history, dispatched, cli_state, printed, io, ops>>
    /\ UNCHANGED <<commonVars, traceVars, downloadVars, dumpVars>>

\* the mutant of OnHandled: Stop does not leave the loop
OnHandledNoBreak(r) ==
    CASE r = "Continue" -> "readline"
      [] r = "Stop"     -> "readline"
      [] OTHER          -> "err"

\* the mutant of OnHandled: an error of the line handler ends the loop like Stop
OnHandledErrAbsorbed(r) ==
    CASE r = "Continue" -> "readline"
      [] OTHER          -> "ok"

\* cli.handle_line(..)? followed by match cli_state: where control goes
OnHandled(r) ==
    CASE r = "Continue" -> "readline"
      [] r = "Stop"     -> "ok"
      [] OTHER          -> "err"

\* Ok(line) => { add_history_entry; handle_line?; match cli_state }
DebugLine ==
    /\ cmd = "debug" /\ pc = "match"
    /\ readline \in Lines
    /\ history' = Append(history, readline)
    /\ dispatched' = Append(dispatched, readline)
    /\ \E r \in HandlerResults :
          /\ cli_state' = r
          /\ io' = IF r = "Err" THEN "err" ELSE "ok"
          /\ ops' = Append(ops, [op |-> "handle_line", r |-> io'])
          /\ IF OnHandled(r) = "readline"
             THEN pc' = "readline" /\ UNCHANGED <<result, session, cores>>
             ELSE Return(OnHandled(r))
    /\ UNCHANGED <<cmd, args, matches, attaches, coreSelects, input, readline, printed>>
    /\ UNCHANGED <<traceVars, downloadVars, dumpVars>>

\* mutants of OnReadlineError
OnReadlineErrorInterruptFails(e) ==
    CASE e = "Eof"         -> [print |-> FALSE, ret |-> "ok"]
      [] e = "Interrupted" -> [print |-> TRUE, ret |-> "err"]
      [] OTHER             -> [print |-> TRUE, ret |-> "ok"]

OnReadlineErrorPropagates(e) ==
    CASE e \in {"Eof", "Interrupted"} -> [print |-> FALSE, ret |-> "ok"]
      [] OTHER                        -> [print |-> FALSE, ret |-> "err"]

\* Err(e) => match e: Eof and Interrupted return Ok(()) at once, any other
\* error is printed and the break leads to the Ok(()) after the loop
OnReadlineError(e) ==
    CASE e \in {"Eof", "Interrupted"} -> [print |-> FALSE, ret |-> "ok"]
      [] OTHER                        -> [print |-> TRUE, ret |-> "ok"]

DebugReadlineError ==
    /\ cmd = "debug" /\ pc = "match"
    /\ readline \in ReadlineErrors
    /\ printed' = IF OnReadlineError(readline).print
                  THEN Append(printed, readline) ELSE printed
    /\ Return(OnReadlineError(readline).ret)
    /\ UNCHANGED <<cmd, args, matches, attaches, coreSelects, input, readline, history,
                   dispatched, cli_state, io, ops>>
    /\ UNCHANGED <<traceVars, downloadVars, dumpVars>>

Debug ==
    \/ DebugAttach
    \/ DebugCapstone
    \/ DebugCore
    \/ DebugReadline
    \/ DebugLine
    \/ DebugReadlineError

(***************************************************************************)
(* trace_u32_on_target(): the memory sampler.                              *)
(***************************************************************************)
\* let start = Instant::now(); let mut session = common.simple_attach()?;
TraceAttach ==
    /\ cmd = "trace" /\ pc = "attach"
    /\ \E d \in AttachDelays : clock' = AddDur(clock, d)
    /\ Attach("core")
    /\ UNCHANGED <<cmd, args, matches, coreSelects>>
    /\ UNCHANGED <<instant, value, xs, ys, buf, pending, sink, time_to_wait, iter, reads, readSpan, overslept>>
    /\ UNCHANGED <<debugVars, downloadVars, dumpVars>>

TraceCore ==
    /\ cmd = "trace" /\ pc = "core"
    /\ SelectCore("stamp")
    /\ UNCHANGED <<cmd, args, matches, attaches>>
    /\ UNCHANGED <<debugVars, traceVars, downloadVars, dumpVars>>

\* // Prepare read.  let elapsed = start.elapsed(); let instant = ..
TraceStamp ==
    /\ cmd = "trace" /\ pc = "stamp"
    /\ iter < MaxIter
    /\ instant' = ElapsedMs(clock)
    /\ pc' = "read"
    /\ UNCHANGED <<cmd, args, matches, result, io, ops>>
    /\ UNCHANGED <<clock, value, xs, ys, buf, pending, sink, time_to_wait, iter, reads, readSpan, overslept>>
    /\ UNCHANGED <<commonVars, debugVars, downloadVars, dumpVars>>

\* the mutant of TraceRead: the error of the read is dropped and the loop
\* goes on with a zero word
TraceReadUnchecked ==
    /\ cmd = "trace" /\ pc = "read"
    /\ \E d \in ReadDelays : clock' = AddDur(clock, d)
    /\ readSpan' = [issued |-> clock, completed |-> clock']
    /\ \E r \in IoResults :
          /\ io' = r
          /\ ops' = Append(ops, [op |-> "read_word_32", r |-> r])
          /\ IF r = "ok"
             THEN \E v \in Values : value' = v /\ reads' = reads + 1
             ELSE value' = <<0, 0>> /\ reads' = reads
    /\ pc' = "record"
    /\ UNCHANGED <<cmd, args, matches, result, attaches, coreSelects, session, cores>>
    /\ UNCHANGED <<instant, xs, ys, buf, pending, sink, time_to_wait, iter, overslept>>
    /\ UNCHANGED <<debugVars, downloadVars, dumpVars>>

\* the mutant of TraceRead: the timestamp is taken again once the read has
\* returned
TraceReadThenStamp ==
    /\ cmd = "trace" /\ pc = "read"
    /\ \E d \in ReadDelays : clock' = AddDur(clock, d)
    /\ readSpan' = [issued |-> clock, completed |-> clock']
    /\ instant' = ElapsedMs(clock')
    /\ \E r \in IoResults :
          /\ io' = r
          /\ ops' = Append(ops, [op |-> "read_word_32", r |-> r])
          /\ IF r = "ok"
             THEN /\ \E v \in Values : value' = v
                  /\ reads' = reads + 1
                  /\ pc' = "record"
                  /\ UNCHANGED <<result, session, cores>>
             ELSE /\ Return("err")
                  /\ UNCHANGED <<value, reads>>
    /\ UNCHANGED <<cmd, args, matches, attaches, coreSelects>>
    /\ UNCHANGED <<xs, ys, buf, pending, sink, time_to_wait, iter, overslept>>
    /\ UNCHANGED <<debugVars, downloadVars, dumpVars>>

\* let value: u32 = core.read_word_32(loc)?;
TraceRead ==
    /\ cmd = "trace" /\ pc = "read"
    /\ \E d \in ReadDelays : clock' = AddDur(clock, d)
    /\ readSpan' = [issued |-> clock, completed |-> clock']
    /\ \E r \in IoResults :
          /\ io' = r
          /\ ops' = Append(ops, [op |-> "read_word_32", r |-> r])
          /\ IF r = "ok"
             THEN /\ \E v \in Values : value' = v
                  /\ reads' = reads + 1
                  /\ pc' = "record"
                  /\ UNCHANGED <<result, session, cores>>
             ELSE /\ Return("err")
                  /\ UNCHANGED <<value, reads>>
    /\ UNCHANGED <<cmd, args, matches, attaches, coreSelects>>
    /\ UNCHANGED <<instant, xs, ys, buf, pending, sink, time_to_wait, iter, overslept>>
    /\ UNCHANGED <<debugVars, downloadVars, dumpVars>>

\* xs.push(instant); ys.push(value); and the record is put into buf
TraceRecord ==
    /\ cmd = "trace" /\ pc = "record"
    /\ xs' = Append(xs, instant)
    /\ ys' = Append(ys, value)
    /\ PwriteFits(ZeroBuf, BytesLE(instant), 0)
    /\ PwriteFits(ZeroBuf, BytesLE(value), 4)
    /\ buf' = EncodeRecord(instant, value)
    /\ pc' = "write"
    /\ UNCHANGED <<cmd, args, matches, result, io, ops>>
    /\ UNCHANGED <<clock, instant, value, pending, sink, time_to_wait, iter, reads, readSpan, overslept>>
    /\ UNCHANGED <<commonVars, debugVars, downloadVars, dumpVars>>

\* std::io::stdout().write_all(&buf)?;
TraceWrite ==
    /\ cmd = "trace" /\ pc = "write"
    /\ \E r \in IoResults :
          /\ io' = r
          /\ IF r = "ok"
             THEN /\ pending' = Append(pending, buf)
                  /\ pc' = "flush"
                  /\ UNCHANGED <<result, session, cores>>
             ELSE /\ Return("err")
                  /\ UNCHANGED pending
    /\ UNCHANGED <<cmd, args, matches, attaches, coreSelects, ops>>
    /\ UNCHANGED <<clock, instant, value, xs, ys, buf, sink, time_to_wait, iter, reads,
                   readSpan, overslept>>
    /\ UNCHANGED <<debugVars, downloadVars, dumpVars>>

\* the mutant of TraceFlush: stdout is not flushed
TraceFlushSkipped ==
    /\ cmd = "trace" /\ pc = "flush"
    /\ pc' = "schedule"
    /\ UNCHANGED <<cmd, args, matches, result, io, ops>>
    /\ UNCHANGED <<commonVars, debugVars, traceVars, downloadVars, dumpVars>>

\* std::io::stdout().flush()?;
TraceFlush ==
    /\ cmd = "trace" /\ pc = "flush"
    /\ \E r \in IoResults :
          /\ io' = r
          /\ IF r = "ok"
             THEN /\ sink' = sink \o pending
                  /\ pending' = <<>>
                  /\ pc' = "schedule"
                  /\ UNCHANGED <<result, session, cores>>
             ELSE /\ Return("err")
                  /\ UNCHANGED <<sink, pending>>
    /\ UNCHANGED <<cmd, args, matches, attaches, coreSelects, ops>>
    /\ UNCHANGED <<clock, instant, value, xs, ys, buf, time_to_wait, iter, reads,
                   readSpan, overslept>>
    /\ UNCHANGED <<debugVars, downloadVars, dumpVars>>

\* // Schedule next read.  let elapsed = start.elapsed(); .. let time_to_wait = ..
TraceSchedule ==
    /\ cmd = "trace" /\ pc = "schedule"
    /\ time_to_wait' = TimeToWait(ElapsedMs(clock))
    /\ pc' = "sleep"
    /\ UNCHANGED <<cmd, args, matches, result, io, ops>>
    /\ UNCHANGED <<clock, instant, value, xs, ys, buf, pending, sink, iter, reads, readSpan, overslept>>
    /\ UNCHANGED <<commonVars, debugVars, downloadVars, dumpVars>>

\* the mutant of TraceSleep: the loop is left after the sleep and the command
\* returns Ok(())
TraceSleepReturns ==
    /\ cmd = "trace" /\ pc = "sleep"
    /\ \E o \in Oversleeps :
          /\ clock' = AddDur(AddDur(clock, FromMillis(time_to_wait)), o)
          /\ overslept' = o
    /\ iter' = iter + 1
    /\ Return("ok")
    /\ UNCHANGED <<cmd, args, matches, io, ops, attaches, coreSelects>>
    /\ UNCHANGED <<instant, value, xs, ys, buf, pending, sink, time_to_wait, reads, readSpan>>
    /\ UNCHANGED <<debugVars, downloadVars, dumpVars>>

\* sleep(Duration::from_millis(time_to_wait)); and the loop starts over
TraceSleep ==
    /\ cmd = "trace" /\ pc = "sleep"
    /\ \E o \in Oversleeps :
          /\ clock' = AddDur(AddDur(clock, FromMillis(time_to_wait)), o)
          /\ overslept' = o
    /\ iter' = iter + 1
    /\ pc' = "stamp"
    /\ UNCHANGED <<cmd, args, matches, result, io, ops>>
    /\ UNCHANGED <<instant, value, xs, ys, buf, pending, sink, time_to_wait, reads, readSpan>>
    /\ UNCHANGED <<commonVars, debugVars, downloadVars, dumpVars>>

Trace ==
    \/ TraceAttach
    \/ TraceCore
    \/ TraceStamp
    \/ TraceRead
    \/ TraceRecord
    \/ TraceWrite
    \/ TraceFlush
    \/ TraceSchedule
    \/ TraceSleep

(***************************************************************************)
(* download_program_fast(): the image download.                            *)
(***************************************************************************)
DownloadAttach ==
    /\ cmd = "download" /\ pc = "attach"
    /\ Attach("open")
    /\ UNCHANGED <<cmd, args, matches, coreSelects>>
    /\ UNCHANGED <<debugVars, traceVars, downloadVars, dumpVars>>

\* let mut file = match File::open(path) { Ok(file) => file, Err(e) => return Err(..) };
DownloadOpen ==
    /\ cmd = "download" /\ pc = "open"
    /\ \E r \in IoResults :
          /\ io' = r
          /\ IF r = "ok"
             THEN /\ opened' = TRUE
                  /\ pc' = "load"
                  /\ UNCHANGED <<result, session, cores>>
             ELSE /\ Return("err")
                  /\ UNCHANGED opened
    /\ UNCHANGED <<cmd, args, matches, attaches, coreSelects, format, loadCall, loaded,
                   flashRuns, ops>>
    /\ UNCHANGED <<debugVars, traceVars, dumpVars>>

\* match format { Bin(options) => .., Elf => .., Hex => .. }: the entry of the
\* loader the file is fed to
LoadEntry(f) ==
    CASE f.kind = "Bin" -> "load_bin_data"
      [] f.kind = "Elf" -> "load_elf_data"
      [] f.kind = "Hex" -> "load_hex_data"

\* the mutant of DownloadLoad: the result of the load is not looked at
DownloadLoadUnchecked ==
    /\ cmd = "download" /\ pc = "load"
    /\ loadCall' = LoadEntry(format)
    /\ \E r \in IoResults :
          /\ io' = r
          /\ loaded' = (r = "ok")
    /\ pc' = "flash"
    /\ UNCHANGED <<cmd, args, matches, result, format, opened, flashRuns, ops>>
    /\ UNCHANGED <<commonVars, debugVars, traceVars, dumpVars>>

\* let mut loader = session.target().flash_loader(); match format { .. }?;
DownloadLoad ==
    /\ cmd = "download" /\ pc = "load"
    /\ loadCall' = LoadEntry(format)
    /\ \E r \in IoResults :
          /\ io' = r
          /\ IF r = "ok"
             THEN /\ loaded' = TRUE
                  /\ pc' = "flash"
                  /\ UNCHANGED <<result, session, cores>>
             ELSE /\ Return("err")
                  /\ UNCHANGED loaded
    /\ UNCHANGED <<cmd, args, matches, attaches, coreSelects, format, opened, flashRuns, ops>>
    /\ UNCHANGED <<debugVars, traceVars, dumpVars>>

\* run_flash_download(&mut session, .., loader)?; Ok(())
DownloadFlash ==
    /\ cmd = "download" /\ pc = "flash"
    /\ flashRuns' = flashRuns + 1
    /\ \E r \in IoResults :
          /\ io' = r
          /\ ops' = Append(ops, [op |-> "run_flash_download", r |-> r])
          /\ Return(r)
    /\ UNCHANGED <<cmd, args, matches, attaches, coreSelects, format, opened, loadCall,
                   loaded>>
    /\ UNCHANGED <<debugVars, traceVars, dumpVars>>

Download ==
    \/ DownloadAttach
    \/ DownloadOpen
    \/ DownloadLoad
    \/ DownloadFlash

(***************************************************************************)
(* dump_memory(): read words and print them.                               *)
(***************************************************************************)
DumpAttach ==
    /\ cmd = "dump" /\ pc = "attach"
    /\ Attach("core")
    /\ UNCHANGED <<cmd, args, matches, coreSelects>>
    /\ UNCHANGED <<debugVars, traceVars, downloadVars, dumpVars>>

\* let mut data = vec![0_u32; words as usize]; .. let mut core = session.core(..)?;
DumpCore ==
    /\ cmd = "dump" /\ pc = "core"
    /\ data' = [i \in 1..ToInt(matches.words[1]) |-> <<0, 0>>]
    /\ SelectCore("read")
    /\ UNCHANGED <<cmd, args, matches, attaches, word, rows, readReq, summary>>
    /\ UNCHANGED <<debugVars, traceVars, downloadVars>>

\* core.read_32(loc, &mut data.as_mut_slice())?;
DumpRead ==
    /\ cmd = "dump" /\ pc = "read"
    /\ readReq' = <<[addr |-> matches.loc[1], len |-> Len(data)]>>
    /\ \E r \in IoResults :
          /\ io' = r
          /\ ops' = Append(ops, [op |-> "read_32", r |-> r])
          /\ IF r = "ok"
             THEN /\ data' \in SeqsOfLen(Values, Len(data))
                  /\ pc' = "rows"
                  /\ UNCHANGED <<result, session, cores>>
             ELSE /\ Return("err")
                  /\ UNCHANGED data
    /\ UNCHANGED <<cmd, args, matches, attaches, coreSelects, word, rows, summary>>
    /\ UNCHANGED <<debugVars, traceVars, downloadVars>>

\* for word in 0..words { println!("Addr 0x{:08x?}: 0x{:08x}", loc + 4 * word, data[word]) }
\* one row; an address that does not fit a u32 panics or wraps
DumpRow ==
    /\ cmd = "dump" /\ pc = "rows"
    /\ word < ToInt(matches.words[1])
    /\ LET a == RowAddr(matches.loc[1], word)
       IN  \/ /\ rows' = Append(rows, [addr |-> a.val, value |-> data[word + 1]])
              /\ word' = word + 1
              /\ UNCHANGED <<pc, result, session, cores>>
           \/ /\ a.overflow
              /\ Return("panic")
              /\ UNCHANGED <<rows, word>>
    /\ UNCHANGED <<cmd, args, matches, attaches, coreSelects, io, ops, data, readReq, summary>>
    /\ UNCHANGED <<debugVars, traceVars, downloadVars>>

\* println!("Read {:?} words in {:?}", words, elapsed); Ok(())
DumpSummary ==
    /\ cmd = "dump" /\ pc = "rows"
    /\ word = ToInt(matches.words[1])
    /\ summary' = <<matches.words[1]>>
    /\ Return("ok")
    /\ UNCHANGED <<cmd, args, matches, attaches, coreSelects, io, ops, data, word, rows, readReq>>
    /\ UNCHANGED <<debugVars, traceVars, downloadVars>>

Dump ==
    \/ DumpAttach
    \/ DumpCore
    \/ DumpRead
    \/ DumpRow
    \/ DumpSummary

(***************************************************************************)
(* reset_target_of_device() and erase().                                   *)
(***************************************************************************)
ResetAttach ==
    /\ cmd = "reset" /\ pc = "attach"
    /\ Attach("core")
    /\ UNCHANGED <<cmd, args, matches, coreSelects>>
    /\ UNCHANGED <<debugVars, traceVars, downloadVars, dumpVars>>

\* session.core(shared_options.core)?
ResetCore ==
    /\ cmd = "reset" /\ pc = "core"
    /\ SelectCore("reset")
    /\ UNCHANGED <<cmd, args, matches, attaches>>
    /\ UNCHANGED <<debugVars, traceVars, downloadVars, dumpVars>>

\* the mutant of ResetReset: the core is reset only when assert is not false
ResetResetUnlessDeasserted ==
    /\ cmd = "reset" /\ pc = "reset"
    /\ IF args.assert = <<FALSE>>
       THEN /\ Return("ok")
            /\ UNCHANGED <<io, ops>>
       ELSE \E r \in IoResults :
               /\ io' = r
               /\ ops' = Append(ops, [op |-> "reset", r |-> r])
               /\ Return(r)
    /\ UNCHANGED <<cmd, args, matches, attaches, coreSelects>>
    /\ UNCHANGED <<debugVars, traceVars, downloadVars, dumpVars>>

\* .reset()?; Ok(())
ResetReset ==
    /\ cmd = "reset" /\ pc = "reset"
    /\ \E r \in IoResults :
          /\ io' = r
          /\ ops' = Append(ops, [op |-> "reset", r |-> r])
          /\ Return(r)
    /\ UNCHANGED <<cmd, args, matches, attaches, coreSelects>>
    /\ UNCHANGED <<debugVars, traceVars, downloadVars, dumpVars>>

Reset ==
    \/ ResetAttach
    \/ ResetCore
    \/ ResetReset

EraseAttach ==
    /\ cmd = "erase" /\ pc = "attach"
    /\ Attach("erase")
    /\ UNCHANGED <<cmd, args, matches, coreSelects>>
    /\ UNCHANGED <<debugVars, traceVars, downloadVars, dumpVars>>

\* erase_all(&mut session)?; Ok(())
EraseAll ==
    /\ cmd = "erase" /\ pc = "erase"
    /\ \E r \in IoResults :
          /\ io' = r
          /\ ops' = Append(ops, [op |-> "erase_all", r |-> r])
          /\ Return(r)
    /\ UNCHANGED <<cmd, args, matches, attaches, coreSelects>>
    /\ UNCHANGED <<debugVars, traceVars, downloadVars, dumpVars>>

Erase ==
    \/ EraseAttach
    \/ EraseAll

Next ==
    \/ ParseArgs
    \/ Debug
    \/ Trace
    \/ Download
    \/ Dump
    \/ Reset
    \/ Erase

Spec == Init /\ [][Next]_vars

\* The sampler is one sequential thread: every statement of the loop that is
\* reached is executed, and every call it makes returns.
FairSpec == Spec /\ WF_vars(Trace)

(***************************************************************************)
(* Properties of the debug shell loop.                                     *)
(***************************************************************************)
\* C1: when the line handler returns Stop for a dispatched line the loop ends
\* in that very step: the command returns success with the rest of the input
\* unread, and once returned nothing more is read or dispatched.
StopEndsShellLoop ==
    [][ /\ (cmd = "debug" /\ dispatched' # dispatched /\ cli_state' = "Stop")
            => (pc' = "done" /\ result' = "ok" /\ input' = input)
        /\ (cmd = "debug" /\ pc = "done")
            => UNCHANGED <<input, readline, dispatched, history>> ]_vars

\* two lines were handled, the second with Stop, input is left, success
StopWithUnreadInput ==
    /\ cmd = "debug" /\ pc = "done" /\ result = "ok"
    /\ cli_state = "Stop"
    /\ Len(dispatched) = 2
    /\ Len(input) >= 1

\* C2: end of input or an interrupt returned by the line read ends the loop in
\* the next step with success, whatever was handled before; the read
\* dispatches no line and prints nothing.
EndOfInputEndsShellLoop ==
    [][ (cmd = "debug" /\ pc = "match" /\ readline \in {"Eof", "Interrupted"})
            => /\ pc' = "done" /\ result' = "ok"
               /\ UNCHANGED <<dispatched, history, printed, cli_state>> ]_vars

\* an interrupt after two lines handled with Continue
InterruptAfterTwoLines ==
    /\ cmd = "debug" /\ pc = "done" /\ result = "ok"
    /\ readline = "Interrupted"
    /\ Len(dispatched) = 2
    /\ cli_state = "Continue"

\* C3: any other failure of the line read is printed and absorbed: the loop
\* ends in the next step, nothing more is read or dispatched, and the command
\* returns success.
EditingErrorAbsorbed ==
    [][ (cmd = "debug" /\ pc = "match"
            /\ readline \in ReadlineErrors \ {"Eof", "Interrupted"})
            => /\ printed' = Append(printed, readline)
               /\ pc' = "done" /\ result' = "ok"
               /\ UNCHANGED <<input, dispatched, history>> ]_vars

\* the editor failed after one line, with input left unread
EditingErrorWithUnreadInput ==
    /\ cmd = "debug" /\ pc = "done" /\ result = "ok"
    /\ readline = "Io"
    /\ printed = <<"Io">>
    /\ Len(dispatched) = 1
    /\ Len(input) >= 1

(***************************************************************************)
(* Properties of the memory sampler.                                       *)
(***************************************************************************)
\* the records handed to stdout so far, in order
Emitted == sink \o pending

\* the u32 that four bytes hold in little-endian order, as two limbs
DecodeLE32(r, offset) ==
    <<r[offset + 1] + 256 * r[offset + 2], r[offset + 3] + 256 * r[offset + 4]>>

\* C4: a failing read, write or flush ends the loop in that step with the
\* error; a failing read emits no record; after the return nothing is read,
\* emitted or slept.
SamplerFailFast ==
    [][ /\ (cmd = "trace" /\ pc \in {"read", "write", "flush"} /\ io' = "err")
            => /\ pc' = "done" /\ result' = "err"
               /\ UNCHANGED <<sink, pending, xs, ys, reads, iter>>
        /\ (cmd = "trace" /\ pc = "done")
            => UNCHANGED <<sink, pending, reads, iter, clock>> ]_vars

\* the read of the second iteration failed: one record, one sleep, the error
ReadFailsInSecondIteration ==
    /\ cmd = "trace" /\ pc = "done" /\ result = "err" /\ io = "err"
    /\ iter = 1 /\ reads = 1
    /\ Len(xs) = 1
    /\ Len(sink) = 1 /\ pending = <<>>

\* C5: the sampler retains no more than the current sample.
SamplerKeepsOnlyCurrentSample ==
    cmd = "trace" => Len(xs) <= 1 /\ Len(ys) <= 1

\* the remainder of the elapsed milliseconds modulo the period, read off the
\* clock: 1000 is a multiple of the period
RemainderOfPeriod(c) == c.millis % poll_every_ms

\* C6 as stated: the sleep is the remainder of the elapsed time modulo 50 ms.
SleepsForRemainder ==
    (cmd = "trace" /\ pc = "sleep") => time_to_wait = RemainderOfPeriod(clock)

\* C6 as amended: the sleep is the period less the remainder of the elapsed
\* time modulo 50 ms, the time left to the next multiple of the period.
SleepsToNextPeriod ==
    (cmd = "trace" /\ pc = "sleep")
        => time_to_wait = poll_every_ms - RemainderOfPeriod(clock)

\* 57 ms after the start the sampler is about to sleep 43 ms
SleepAfterSlowRead ==
    /\ cmd = "trace" /\ pc = "sleep"
    /\ clock = Dur(0, 57)
    /\ time_to_wait = 43

\* C7 as stated: the elapsed-ms values in the emitted records never decrease.
EmittedTimestampsNonDecreasing ==
    \A i, j \in 1..Len(Emitted) :
        i < j => LimbsLeq(DecodeLE32(Emitted[i], 0), DecodeLE32(Emitted[j], 0))

\* x < 2^32
FitsU32(x) == x[3] = 0 /\ x[4] = 0

\* C7 as amended: the 64-bit elapsed-ms values of the samples never decrease,
\* and the 32-bit values in the records never decrease up to a sample taken
\* less than 2^32 ms after the start.
TimestampsNonDecreasingUntilWrap ==
    /\ \A i, j \in 1..Len(xs) : i < j => LimbsLeq(xs[i], xs[j])
    /\ \A i, j \in 1..Len(Emitted) :
          (i < j /\ FitsU32(xs[j]))
              => LimbsLeq(DecodeLE32(Emitted[i], 0), DecodeLE32(Emitted[j], 0))

\* three records with growing timestamps, all below 2^32 ms
ThreeGrowingTimestamps ==
    /\ cmd = "trace" /\ Len(sink) = 3
    /\ FitsU32(xs[3])
    /\ DecodeLE32(sink[1], 0) # DecodeLE32(sink[2], 0)
    /\ DecodeLE32(sink[2], 0) # DecodeLE32(sink[3], 0)

\* C8: every emitted record is 8 bytes; bytes 0..3 hold the elapsed
\* milliseconds modulo 2^32 and bytes 4..7 the value read, both little-endian.
RecordLayout ==
    \A k \in 1..Len(Emitted) :
        LET r == Emitted[k]
        IN  /\ Len(r) = 8
            /\ \A i \in 1..8 : r[i] \in 0..255
            /\ DecodeLE32(r, 0) = SubSeq(xs[k], 1, 2)
            /\ DecodeLE32(r, 4) = ys[k]

\* a record of 0x12345678 taken more than 2^32 ms after the start
RecordAfterWrap ==
    /\ cmd = "trace"
    /\ \E k \in 1..Len(sink) : ~FitsU32(xs[k]) /\ ys[k] = <<22136, 4660>>

\* C9: one record per successful read, in read order, and whenever the
\* sampler is about to sleep or to read, every record of an earlier read
\* has been written and flushed.
FlushedBeforeSleepAndRead ==
    cmd = "trace" =>
        /\ Len(Emitted) <= reads
        /\ \A k \in 1..Len(Emitted) : DecodeLE32(Emitted[k], 4) = ys[k]
        /\ pc \in {"schedule", "sleep", "stamp", "read"}
              => (pending = <<>> /\ Len(sink) = reads)

\* about to sleep for the second time, both records flushed
TwoRecordsFlushedBeforeSleep ==
    /\ cmd = "trace" /\ pc = "sleep"
    /\ reads = 2 /\ Len(sink) = 2
    /\ ys[1] # ys[2]

(***************************************************************************)
(* Properties of the download.                                             *)
(***************************************************************************)
\* C10: the flashing sequence is started only after the file was opened and
\* the load step succeeded; when either fails the command returns the error
\* and the flashing sequence is never started.
FlashOnlyAfterLoad ==
    cmd = "download" =>
        /\ flashRuns > 0 => (opened /\ loaded)
        /\ (pc \in {"open", "load"} => flashRuns = 0)
        /\ (pc = "done" /\ ~(opened /\ loaded))
              => (result \in {"err", "parse_error"} /\ flashRuns = 0)

\* the HEX image failed to load
HexLoadFailed ==
    /\ cmd = "download" /\ pc = "done" /\ result = "err"
    /\ opened /\ ~loaded
    /\ loadCall = "load_hex_data"
    /\ flashRuns = 0

(***************************************************************************)
(* Properties of the session and the core.                                 *)
(***************************************************************************)
\* the commands that attach a session
SessionCommands == {"reset", "debug", "dump", "download", "erase", "trace"}

\* the number of calls of op in the log
CountOps(op) == Cardinality({k \in 1..Len(ops) : ops[k].op = op})

\* C11: in every invocation the session is attached at most once and first of
\* all, a core is selected at most once and only right after a successful
\* attach, at most one Core handle is live, and a failed attach or core
\* selection is the last call made: the command returns the error and neither
\* a sub-operation nor a line read follows.
AttachOnceCoreOnce ==
    cmd \in SessionCommands =>
        /\ attaches <= 1 /\ CountOps("attach") = attaches
        /\ coreSelects <= 1 /\ CountOps("core") = coreSelects
        /\ cores <= 1
        /\ cores = 1 => session
        /\ \A k \in 1..Len(ops) :
              /\ ops[k].op = "attach" <=> k = 1
              /\ ops[k].op = "core" => (k = 2 /\ ops[1].r = "ok")
              /\ (ops[k].op \in {"attach", "core"} /\ ops[k].r = "err")
                    => /\ k = Len(ops)
                       /\ pc = "done" /\ result = "err"
                       /\ readline = "none" /\ dispatched = <<>>

\* the dump whose core selection failed
DumpCoreSelectionFailed ==
    /\ cmd = "dump" /\ pc = "done" /\ result = "err"
    /\ ops = <<[op |-> "attach", r |-> "ok"], [op |-> "core", r |-> "err"]>>
    /\ readReq = <<>>
    /\ rows = <<>>

(***************************************************************************)
(* Properties of the dump.                                                 *)
(***************************************************************************)
\* the read of the dump returned the words
DumpReadDone == Len(ops) = 3 /\ ops[3] = [op |-> "read_32", r |-> "ok"]

\* x + 4 on three limbs: 33 bits, enough for any address plus 4 * MaxWords
Plus4(x) ==
    LET s1 == x[1] + 4
        s2 == x[2] + s1 \div Limb
    IN  <<s1 % Limb, s2 % Limb, x[3] + s2 \div Limb>>

\* the integer loc + 4 * i, counted up from loc
RECURSIVE AddrOfRow(_, _)
AddrOfRow(loc, i) ==
    IF i = 0 THEN <<loc[1], loc[2], 0>> ELSE Plus4(AddrOfRow(loc, i - 1))

\* what the dump has to have read and printed for loc and n words
DumpReportsWords(loc, n) ==
    /\ readReq = <<[addr |-> loc, len |-> n]>>
    /\ Len(data) = n
    /\ \A i \in 1..Len(rows) :
          /\ rows[i].addr \o <<0>> = AddrOfRow(loc, i - 1)
          /\ rows[i].value = data[i]
    /\ pc = "done" => (result = "ok" /\ Len(rows) = n /\ summary = <<U32FromInt(n)>>)

\* C12: for every loc and every words >= 0 the dump reads words
\* values from loc and prints one row per word, row i with the address
\* loc + 4 * i and the i-th value read.
DumpRowsForAllArguments ==
    (cmd = "dump" /\ DumpReadDone)
        => DumpReportsWords(matches.loc[1], ToInt(matches.words[1]))

\* every address loc + 4 * i, i < n, is below 2^32
InAddressSpace(loc, n) == n = 0 \/ AddrOfRow(loc, n - 1)[3] = 0

\* the same holds for every loc and words whose addresses loc + 4 * i,
\* i < words, all fit in 32 bits: the rows go wrong only past 0xffffffff
DumpRowsWithinAddressSpace ==
    (cmd = "dump" /\ DumpReadDone
        /\ InAddressSpace(matches.loc[1], ToInt(matches.words[1])))
        => DumpReportsWords(matches.loc[1], ToInt(matches.words[1]))

\* three words from 0x20000000, the second unlike the first, all printed
ThreeRowsDumped ==
    /\ cmd = "dump" /\ pc = "done" /\ result = "ok"
    /\ args.loc = <<Hex20000000>>
    /\ Len(rows) = 3
    /\ rows[1].value # rows[2].value
    /\ rows[3].addr = <<8, 8192>>

(***************************************************************************)
(* Properties of the command line.                                         *)
(***************************************************************************)
\* C13: format resolution is total: bin without overrides gives a raw binary
\* with no base address and skip 0, bin with overrides carries them unchanged,
\* and elf and hex give the ELF and the HEX image whatever overrides were
\* supplied.
FormatResolution ==
    (cmd = "download" /\ pc # "parse" /\ result # "parse_error") =>
        CASE args.format = "Bin" ->
                /\ DOMAIN format = {"kind", "base_address", "skip"}
                /\ format.kind = "Bin"
                /\ format.base_address = matches.base_address
                /\ args.base_address = <<>> => format.base_address = <<>>
                /\ args.base_address = <<Hex8000000>> => format.base_address = <<<<0, 2048>>>>
                /\ args.skip_bytes = <<>> => format.skip = <<0, 0>>
                /\ args.skip_bytes # <<>> => format.skip = matches.skip_bytes[1]
                /\ args.skip_bytes = <<<<"4">>>> => format.skip = <<4, 0>>
          [] args.format = "Elf" -> format = [kind |-> "Elf"]
          [] args.format = "Hex" -> format = [kind |-> "Hex"]

\* a raw binary with both overrides has been resolved
BinWithOverridesResolved ==
    /\ cmd = "download" /\ pc = "attach"
    /\ args.format = "Bin"
    /\ args.base_address = <<Hex8000000>>
    /\ args.skip_bytes = <<<<"4">>>>
    /\ format.kind = "Bin"

\* a decimal numeral, or 0x followed by hexadecimal digits
IsDecimalNumeral(s) ==
    s # <<>> /\ \A i \in 1..Len(s) : s[i] \in {DecDigits[j] : j \in 1..10}

IsHexNumeral(s) ==
    /\ Len(s) >= 3 /\ s[1] = "0" /\ s[2] = "x"
    /\ \A i \in 3..Len(s) :
        s[i] \in {DecDigits[j] : j \in 1..10} \cup {"a", "b", "c", "d", "e", "f"}

\* one of the numeric arguments on the command line is no numeral
MalformedArgument ==
    \E f \in {"loc", "words", "base_address", "skip_bytes"} :
        args[f] # <<>> /\ ~IsDecimalNumeral(args[f][1]) /\ ~IsHexNumeral(args[f][1])

\* C14: with a malformed numeral in loc, words, base-address or skip-bytes the
\* invocation ends with a parse error, and no session attach, core selection,
\* memory access or flash operation is ever performed.
MalformedNumeralStopsBeforeProbe ==
    MalformedArgument =>
        /\ pc \in {"parse", "done"}
        /\ pc = "done" => result = "parse_error"
        /\ ~session /\ attaches = 0 /\ coreSelects = 0 /\ ops = <<>>
        /\ reads = 0 /\ readReq = <<>> /\ data = <<>>
        /\ ~opened /\ ~loaded /\ flashRuns = 0

\* dump was given a word count that is no numeral and has ended
DumpWithMalformedWordsEnded ==
    /\ cmd = "dump" /\ args.words = <<BadNumeral>> /\ args.loc = <<Hex20000000>>
    /\ pc = "done" /\ result = "parse_error"

(***************************************************************************)
(* Further properties of the debug shell.                                  *)
(***************************************************************************)
\* C15: an error returned by the line handler ends the loop in that very
\* step: no further line is read and the command returns the error; a
\* successful return comes only from Stop, end of input, an interrupt or a
\* line-editing failure.
HandlerErrorEndsShellLoop ==
    [][ /\ (cmd = "debug" /\ pc = "match" /\ readline \in Lines /\ cli_state' = "Err")
            => /\ pc' = "done" /\ result' = "err"
               /\ dispatched' = Append(dispatched, readline)
               /\ UNCHANGED <<input, readline, printed>>
        /\ (cmd = "debug" /\ pc # "done" /\ pc' = "done" /\ result' = "ok")
            => (readline \in ReadlineErrors \/ cli_state' = "Stop") ]_vars

\* the handler failed on the second line, with input left unread
HandlerErrorWithUnreadInput ==
    /\ cmd = "debug" /\ pc = "done" /\ result = "err"
    /\ cli_state = "Err"
    /\ Len(dispatched) = 2
    /\ Len(input) >= 1

(***************************************************************************)
(* Further properties of the memory sampler.                               *)
(***************************************************************************)
\* C16: the trace command never returns success, and from the start of every
\* iteration either a read or sink error ends the command or one more sample
\* is emitted.
SamplerNeverSucceedsAndKeepsEmitting ==
    /\ [](cmd = "trace" => result # "ok")
    /\ []((cmd = "trace" /\ pc = "done"
                /\ \E i \in 1..Len(ops) : ops[i] = [op |-> "core", r |-> "ok"])
            => (result = "err" /\ io = "err"))
    /\ \A n \in 0..(MaxIter - 1) :
          (cmd = "trace" /\ pc = "stamp" /\ iter = n)
              ~> (result = "err" \/ Len(sink) > n)

\* two samples emitted, the third iteration about to start
ThirdIterationStarts ==
    /\ cmd = "trace" /\ pc = "stamp" /\ result = "none"
    /\ iter = 2 /\ Len(sink) = 2

\* the positions of an iteration at which a value has been read
AfterRead == {"record", "write", "flush", "schedule", "sleep"}

\* C17 as stated: the timestamp paired with a value is not earlier than the
\* completion of the read of that value.
SampleStampedAfterRead ==
    (cmd = "trace" /\ pc \in AfterRead)
        => LimbsLeq(ElapsedMs(readSpan.completed), instant)

\* C17 as amended: the timestamp is computed first, before the read is
\* issued: the timestamp paired with a value is the elapsed time at which
\* the read of that value was issued, never later than its completion.
SampleStampedBeforeRead ==
    /\ (cmd = "trace" /\ pc \in AfterRead)
        => /\ instant = ElapsedMs(readSpan.issued)
           /\ LimbsLeq(instant, ElapsedMs(readSpan.completed))
    /\ (cmd = "trace" /\ pc \in AfterRead \ {"record"})
        => /\ xs[Len(xs)] = instant
           /\ ys[Len(ys)] = value

\* a read that took 57 ms has returned in the second iteration
SlowReadPaired ==
    /\ cmd = "trace" /\ pc = "write" /\ iter = 1
    /\ readSpan.completed = AddDur(readSpan.issued, Dur(0, 57))
    /\ xs[2] = ElapsedMs(readSpan.issued)

\* C19: the wait computed after an emit is between 1 and 50 ms and ends on a
\* multiple of 50 ms of elapsed time; after an exact sleep the next iteration
\* takes its timestamp on a multiple of 50 ms, whatever the read took.
WaitReachesNextPeriod ==
    /\ \A t \in 0..(3 * poll_every_ms) :
          LET w == TimeToWait(U64FromInt(t))
          IN  w \in 1..poll_every_ms /\ (t + w) % poll_every_ms = 0
    /\ (cmd = "trace" /\ pc = "sleep")
        => /\ time_to_wait \in 1..poll_every_ms
           /\ (clock.millis + time_to_wait) % poll_every_ms = 0
    /\ (cmd = "trace" /\ pc = "read" /\ iter >= 1 /\ overslept = Dur(0, 0))
        => /\ instant = ElapsedMs(clock)
           /\ clock.millis % poll_every_ms = 0
    /\ (cmd = "trace" /\ pc \in AfterRead /\ iter >= 1 /\ overslept = Dur(0, 0))
        => readSpan.issued.millis % poll_every_ms = 0

\* the second iteration has taken its timestamp after a 57 ms read and an
\* exact sleep
SecondStampOnGridAfterSlowRead ==
    /\ cmd = "trace" /\ pc = "read" /\ iter = 1
    /\ overslept = Dur(0, 0)
    /\ readSpan.completed = AddDur(readSpan.issued, Dur(0, 57))
    /\ time_to_wait # poll_every_ms
    /\ instant = ElapsedMs(clock)

(***************************************************************************)
(* Properties of reset.                                                    *)
(***************************************************************************)
\* the calls reset makes on the session and the core, in order
ResetOps == <<"attach", "core", "reset">>

====
